---- MODULE Spec2Model ----
(***************************************************************************)
(* scripts/error-classification.py: the "get-logs" command (JobLogScraper) *)
(* that saves one log file per job, and the "classify" command             *)
(* (ErrorClassifier) that checks the log directory against the CSV and     *)
(* writes one boolean column per taxonomy category.                        *)
(*                                                                         *)
(* Text is modelled character by character: a Python str is a tuple of     *)
(* one-character strings, so that formatting (f-strings, repr), parsing    *)
(* (int, the link regex, grep's basic regular expressions) and file names  *)
(* are computed the way the code computes them.                            *)
(***************************************************************************)
EXTENDS Integers, Sequences, FiniteSets, TLC

VARIABLES manifest, files0, files, pc, i, requests, written, df, taxonomy, k, error

vars == <<manifest, files0, files, pc, i, requests, written, df, taxonomy, k, error>>

(***************************************************************************)
(* Characters and the str <-> int conversions.                             *)
(***************************************************************************)
\* printable ASCII in code-point order (0x20 .. 0x7e, without the backquote)
Ascii == <<" ","!","\"","#","$","%","&","'","(",")","*","+",",","-",".","/","0","1","2","3","4","5","6","7","8","9",":",";","<","=",">","?","@","A","B","C","D","E","F","G","H","I","J","K","L","M","N","O","P","Q","R","S","T","U","V","W","X","Y","Z","[","\\","]","^","_","a","b","c","d","e","f","g","h","i","j","k","l","m","n","o","p","q","r","s","t","u","v","w","x","y","z","{","|","}","~">>

Char == {Ascii[n] : n \in 1..Len(Ascii)}

Ord(c) == CHOOSE n \in 1..Len(Ascii) : Ascii[n] = c

Digits == <<"0","1","2","3","4","5","6","7","8","9">>

DigitChars == {Digits[n] : n \in 1..Len(Digits)}

DigitVal(c) == (CHOOSE n \in 1..Len(Digits) : Digits[n] = c) - 1

Chars(s) == {s[n] : n \in 1..Len(s)}

\* f'{n}' for a non-negative int: decimal, no leading zeros
RECURSIVE str(_)
str(n) == IF n < 10 THEN <<Digits[n + 1]>>
          ELSE str(n \div 10) \o <<Digits[(n % 10) + 1]>>

\* int(s) is defined for a non-empty run of digits, and raises ValueError otherwise
IsInt(s) == Len(s) > 0 /\ Chars(s) \subseteq DigitChars

RECURSIVE int(_)
int(s) == IF Len(s) = 1 THEN DigitVal(s[1])
          ELSE 10 * int(SubSeq(s, 1, Len(s) - 1)) + DigitVal(s[Len(s)])

\* s has the literal t at position p
HasAt(s, t, p) == /\ p + Len(t) - 1 <= Len(s)
                  /\ \A n \in 1..Len(t) : s[p + n - 1] = t[n]

EndsWith(s, t) == Len(s) >= Len(t) /\ HasAt(s, t, Len(s) - Len(t) + 1)

(***************************************************************************)
(* Regular expressions: a compiled expression is a sequence of character   *)
(* sets, one per position ("." is any character; no pattern of the source  *)
(* uses *, \ or anchors, apart from the two \d+ of link_regex).            *)
(***************************************************************************)
\* s matches the compiled expression re at position p
ReAt(s, re, p) == /\ p + Len(re) - 1 <= Len(s)
                  /\ \A n \in 1..Len(re) : s[p + n - 1] \in re[n]

\* a pattern without brackets: every character stands for itself, "." for any
ReLit(t) == [n \in 1..Len(t) |-> IF t[n] = "." THEN Char ELSE {t[n]}]

\* length of the longest run of digits of s that starts at p (the greedy \d+)
RECURSIVE DigitRun(_, _)
DigitRun(s, p) == IF p <= Len(s) /\ s[p] \in DigitChars
                  THEN 1 + DigitRun(s, p + 1) ELSE 0

LinkHead == <<"h","t","t","p","s",":","/","/","g","i","t","l","a","b",".","s","p","a","c","k",".","i","o","/","a","p","i","/","v","4","/","p","r","o","j","e","c","t","s","/">>

LinkJobs == <<"/","j","o","b","s","/">>

LinkTrace == <<"/","t","r","a","c","e">>

None == [matched |-> FALSE]

\* link_regex.match(api_link): anchored at the start only; the groups are the
\* two digit runs.  A digit run is followed by "/", so greedy = the whole run.
link_regex(api_link) ==
    LET a  == Len(LinkHead) + 1
        d1 == DigitRun(api_link, a)
        b  == a + d1
        c  == b + Len(LinkJobs)
        d2 == DigitRun(api_link, c)
        e  == c + d2
    IN  IF /\ ReAt(api_link, ReLit(LinkHead), 1)
           /\ d1 >= 1
           /\ ReAt(api_link, ReLit(LinkJobs), b)
           /\ d2 >= 1
           /\ ReAt(api_link, ReLit(LinkTrace), e)
        THEN [matched |-> TRUE,
              project |-> SubSeq(api_link, a, b - 1),
              job_id  |-> SubSeq(api_link, c, e - 1)]
        ELSE None

(***************************************************************************)
(* The log directory: a function from file name to file content.           *)
(***************************************************************************)
DotLog == <<".","l","o","g">>

Write(fs, name, text) ==
    [n \in (DOMAIN fs) \cup {name} |-> IF n = name THEN text ELSE fs[n]]

\* f'{self.out_dir}/{job_id}.log', as a name inside the directory
LogName(job_id) == str(job_id) \o DotLog

\* f'ERROR: Got {response.status_code} for {api_link}'
ErrorText(status_code, api_link) ==
    <<"E","R","R","O","R",":"," ","G","o","t"," ">> \o str(status_code) \o <<" ","f","o","r"," ">> \o api_link

(***************************************************************************)
(* JobLogScraper.scrape: the new directory, the request sent (if any) and  *)
(* the file written (if any).                                              *)
(***************************************************************************)
scrape_invalid_writes(fs, api_link, response) ==
    LET match == link_regex(api_link)
        job_id == IF match.matched THEN int(match.job_id) ELSE 0
        text == IF response.status_code # 200 \/ ~match.matched
                THEN ErrorText(response.status_code, api_link)
                ELSE response.text
    IN  [files    |-> Write(fs, LogName(job_id), text),
         requests |-> IF match.matched THEN <<api_link>> ELSE <<>>,
         wrote    |-> <<LogName(job_id)>>]

scrape(fs, api_link, response) ==
    LET match == link_regex(api_link)
    IN  IF ~match.matched
        THEN [files |-> fs, requests |-> <<>>, wrote |-> <<>>]
        ELSE LET job_id == int(match.job_id)
                 text == IF response.status_code # 200
                         THEN ErrorText(response.status_code, api_link)
                         ELSE response.text
             IN  [files    |-> Write(fs, LogName(job_id), text),
                  requests |-> <<api_link>>,
                  wrote    |-> <<LogName(job_id)>>]

(***************************************************************************)
(* ErrorClassifier.taxonomy, in the order of the dict.  A rule is a        *)
(* callable, a str or a list of str.                                       *)
(***************************************************************************)
Callable == [kind |-> "callable", s |-> <<>>, l |-> <<>>]

Str(s) == [kind |-> "str", s |-> s, l |-> <<>>]

List(l) == [kind |-> "list", s |-> <<>>, l |-> l]

taxonomy_default == <<
    [col |-> "no_runner", expr |-> Callable],
    [col |-> "job_log_missing", expr |-> Str(<<"E","R","R","O","R",":"," ","G","o","t"," ","[","0","-","9","]","[","0","-","9","]","[","0","-","9","]"," ","f","o","r">>)],
    [col |-> "5XX", expr |-> Str(<<"H","T","T","P"," ","E","r","r","o","r"," ","5","[","0","0","|","0","2","|","0","3","]">>)],
    [col |-> "spack_root", expr |-> Str(<<"E","r","r","o","r",":"," ","S","P","A","C","K","_","R","O","O","T">>)],
    [col |-> "setup_env", expr |-> Str(<<"s","e","t","u","p","-","e","n","v",".","s","h",":"," ","N","o"," ","s","u","c","h"," ","f","i","l","e"," ","o","r"," ","d","i","r","e","c","t","o","r","y">>)],
    [col |-> "no_spec", expr |-> Str(<<"S","p","a","c","k","E","r","r","o","r",":"," ","N","o"," ","i","n","s","t","a","l","l","e","d"," ","s","p","e","c"," ","m","a","t","c","h","e","s"," ","t","h","e"," ","h","a","s","h">>)],
    [col |-> "build_error", expr |-> List(<<<<"e","r","r","o","r"," ","f","o","u","n","d"," ","i","n"," ","b","u","i","l","d"," ","l","o","g",":">>,
                                            <<"e","r","r","o","r","s"," ","f","o","u","n","d"," ","i","n"," ","b","u","i","l","d"," ","l","o","g",":">>>>)],
    [col |-> "oom", expr |-> List(<<<<"c","o","m","m","a","n","d"," ","t","e","r","m","i","n","a","t","e","d"," ","w","i","t","h"," ","e","x","i","t"," ","c","o","d","e"," ","1","3","7">>,
                                    <<"E","R","R","O","R",":"," ","J","o","b"," ","f","a","i","l","e","d",":"," ","e","x","i","t"," ","c","o","d","e"," ","1","3","7">>>>)],
    [col |-> "gitlab_down", expr |-> Str(<<"f","a","t","a","l",":"," ","u","n","a","b","l","e"," ","t","o"," ","a","c","c","e","s","s">>)],
    [col |-> "module_not_found", expr |-> Str(<<"M","o","d","u","l","e","N","o","t","F","o","u","n","d","E","r","r","o","r",":"," ","N","o"," ","m","o","d","u","l","e"," ","n","a","m","e","d">>)],
    [col |-> "artifacts", expr |-> List(<<<<"E","R","R","O","R",":"," ","U","p","l","o","a","d","i","n","g"," ","a","r","t","i","f","a","c","t","s">>,
                                          <<"E","R","R","O","R",":"," ","D","o","w","n","l","o","a","d","i","n","g"," ","a","r","t","i","f","a","c","t","s">>>>)],
    [col |-> "dial_backend", expr |-> Str(<<"e","r","r","o","r"," ","d","i","a","l","i","n","g"," ","b","a","c","k","e","n","d">>)],
    [col |-> "pod_cleanup", expr |-> Str(<<"E","r","r","o","r"," ","c","l","e","a","n","i","n","g"," ","u","p"," ","p","o","d">>)],
    [col |-> "pod_exec", expr |-> Str(<<"E","r","r","o","r"," ","r","e","s","p","o","n","s","e"," ","f","r","o","m"," ","d","a","e","m","o","n",":"," ","N","o"," ","s","u","c","h"," ","e","x","e","c"," ","i","n","s","t","a","n","c","e">>)],
    [col |-> "cmd_not_found", expr |-> Str(<<"C","o","m","m","a","n","d"," ","e","x","i","t","e","d"," ","w","i","t","h"," ","s","t","a","t","u","s"," ","1","2","7">>)],
    [col |-> "db_mismatch", expr |-> Str(<<"E","r","r","o","r",":"," ","E","x","p","e","c","t","e","d"," ","d","a","t","a","b","a","s","e"," ","v","e","r","s","i","o","n">>)],
    [col |-> "db_match", expr |-> Str(<<"s","p","a","c","k",".","s","t","o","r","e",".","M","a","t","c","h","E","r","r","o","r",":">>)],
    [col |-> "pod_timeout", expr |-> Str(<<"t","i","m","e","d"," ","o","u","t"," ","w","a","i","t","i","n","g"," ","f","o","r"," ","p","o","d"," ","t","o"," ","s","t","a","r","t">>)],
    [col |-> "docker_daemon", expr |-> Str(<<"C","a","n","n","o","t"," ","c","o","n","n","e","c","t"," ","t","o"," ","t","h","e"," ","D","o","c","k","e","r"," ","d","a","e","m","o","n">>)],
    [col |-> "rcp_failure", expr |-> Str(<<"e","r","r","o","r",":"," ","R","P","C"," ","f","a","i","l","e","d">>)],
    [col |-> "spack_error", expr |-> Str(<<"T","o"," ","r","e","p","r","o","d","u","c","e"," ","t","h","i","s"," ","b","u","i","l","d"," ","l","o","c","a","l","l","y",","," ","r","u","n",":">>)],
    [col |-> "remote_not_found", expr |-> List(<<<<"f","a","t","a","l",":"," ","R","e","m","o","t","e"," ","b","r","a","n","c","h">>,
                                                 <<"f","a","t","a","l",":"," ","c","o","u","l","d","n","'","t"," ","f","i","n","d"," ","r","e","m","o","t","e"," ","r","e","f">>>>)],
    [col |-> "pipeline_generation", expr |-> Str(<<"E","r","r","o","r",":"," ","P","i","p","e","l","i","n","e"," ","g","e","n","e","r","a","t","i","o","n"," ","f","a","i","l","e","d">>)],
    [col |-> "killed", expr |-> Str(<<"K","i","l","l","e","d">>)],
    [col |-> "remote_discontect", expr |-> Str(<<"h","t","t","p",".","c","l","i","e","n","t",".","R","e","m","o","t","e","D","i","s","c","o","n","n","e","c","t","e","d">>)],
    [col |-> "db_hash", expr |-> Str(<<"E","r","r","o","r",":"," ","E","x","p","e","c","t","e","d"," ","d","a","t","a","b","a","s","e"," ","i","n","d","e","x"," ","k","e","y","e","d"," ","b","y">>)],
    [col |-> "image_pull", expr |-> List(<<
        <<"J","o","b"," ","f","a","i","l","e","d"," ","(","s","y","s","t","e","m"," ","f","a","i","l","u","r","e",")",":"," ","p","r","e","p","a","r","e"," ","e","n","v","i","r","o","n","m","e","n","t",":"," ","i","m","a","g","e"," ","p","u","l","l"," ","f","a","i","l","e","d">>,
        <<"E","R","R","O","R",":"," ","J","o","b"," ","f","a","i","l","e","d"," ","(","s","y","s","t","e","m"," ","f","a","i","l","u","r","e",")",":"," ","f","a","i","l","e","d"," ","t","o"," ","p","u","l","l"," ","i","m","a","g","e">>>>)] >>

(***************************************************************************)
(* ErrorClassifier._grep_for_ids:                                          *)
(*   grep -l "{match_string}" {log_dir}/*.log | sed -e "s|^.*/\(.*\).log|\1|" *)
(* run by sh, stdout and stderr captured together.                         *)
(***************************************************************************)
\* repr() of a str: double quotes when it holds a ' and no ", single quotes
\* otherwise (no string of the source needs an escape)
repr(s) == IF "'" \in Chars(s) /\ "\"" \notin Chars(s)
           THEN <<"\"">> \o s \o <<"\"">>
           ELSE <<"'">> \o s \o <<"'">>

\* ', '.join(repr(x) for x in l)
RECURSIVE JoinRepr(_)
JoinRepr(l) == IF Len(l) = 0 THEN <<>>
               ELSE IF Len(l) = 1 THEN repr(l[1])
               ELSE repr(l[1]) \o <<","," ">> \o JoinRepr(Tail(l))

\* f'{match_string}': a str is itself, a list is its repr
Format(expr) == IF expr.kind = "list" THEN <<"[">> \o JoinRepr(expr.l) \o <<"]">>
                ELSE expr.s

\* sh's quoting state after the character c, read in state q
\* ("dq": inside "...", "sq": inside '...', "no": unquoted)
ShStep(q, c) ==
    IF q = "dq" THEN (IF c = "\"" THEN "no" ELSE "dq")
    ELSE IF q = "sq" THEN (IF c = "'" THEN "no" ELSE "sq")
    ELSE IF c = "\"" THEN "dq"
    ELSE IF c = "'" THEN "sq" ELSE "no"

\* sh's quoting state after reading t[a..b], entered in state q
RECURSIVE ShQuote(_, _, _, _)
ShQuote(t, a, b, q) ==
    IF a > b THEN q
    ELSE IF a = b THEN ShStep(q, t[a])
    ELSE LET m == (a + b) \div 2
             left == ShQuote(t, a, m, q)
         IN  CASE left = "dq" -> ShQuote(t, m + 1, b, "dq")
               [] left = "sq" -> ShQuote(t, m + 1, b, "sq")
               [] OTHER -> ShQuote(t, m + 1, b, "no")

\* the text is interpolated between the two " of the command: when it does not
\* leave sh inside the double-quoted word, the quotes of the rest of the command
\* line do not pair up and sh prints "Syntax error: Unterminated quoted string"
ShSyntaxError(t) == ShQuote(t, 1, Len(t), "dq") # "dq"

\* position of the "]" closing the bracket expression opened at p
\* (a "]" right after the "[" is a member of the set)
RECURSIVE CloseFrom(_, _)
CloseFrom(t, q) == IF q > Len(t) \/ t[q] = "]" THEN q ELSE CloseFrom(t, q + 1)

\* the members of a bracket expression written t[q..e]: characters, and
\* ranges when it holds a "-"
RECURSIVE BracketRanges(_, _, _)
BracketRanges(t, q, e) ==
    IF q > e THEN {}
    ELSE IF q + 2 <= e /\ t[q + 1] = "-"
         THEN {Ascii[n] : n \in Ord(t[q])..Ord(t[q + 2])} \cup BracketRanges(t, q + 3, e)
         ELSE {t[q]} \cup BracketRanges(t, q + 1, e)

BracketSet(t, q, e) ==
    IF "-" \in {t[n] : n \in q..e} THEN BracketRanges(t, q, e)
    ELSE {t[n] : n \in q..e}

\* grep's basic regular expression for the pattern t, from position p on
\* (every bracket of the source's patterns is closed)
RECURSIVE Bre(_, _)
Bre(t, p) ==
    IF p > Len(t) THEN <<>>
    ELSE IF t[p] = "["
         THEN LET e == CloseFrom(t, p + 2)
              IN  <<BracketSet(t, p + 1, e - 1)>> \o Bre(t, e + 1)
         ELSE IF t[p] = "." THEN <<Char>> \o Bre(t, p + 1)
         ELSE <<{t[p]}>> \o Bre(t, p + 1)

\* grep finds the expression somewhere in the text
Grep(text, re) == \E p \in 1..Len(text) : ReAt(text, re, p)

\* glob('*.log'): the names ending in .log, hidden files excepted
Glob(fs) == {n \in DOMAIN fs : EndsWith(n, DotLog) /\ n[1] # "."}

\* Path(s).stem and sed's \1: the file name without its .log
Stem(n) == SubSeq(n, 1, Len(n) - Len(DotLog))

\* raised: the output is not a list of integers and int() raises ValueError
\* (sh's or grep's message: a syntax error, or no *.log file at all)
_grep_for_ids(expr, fs) ==
    LET match_string == Format(expr)
        re == Bre(match_string, 1)
        listed == {n \in Glob(fs) : Grep(fs[n], re)}
    IN  IF ShSyntaxError(match_string) \/ Glob(fs) = {}
           \/ \E n \in listed : ~IsInt(Stem(n))
        THEN [raised |-> TRUE, ids |-> {}]
        ELSE [raised |-> FALSE, ids |-> {int(Stem(n)) : n \in listed}]

(***************************************************************************)
(* ErrorClassifier.__init__: read_csv, _verify_df, the kind column.        *)
(***************************************************************************)
\* a cell of the runner column: NaN, or a str
NaN == [nan |-> TRUE, s |-> <<>>]

Cell(s) == [nan |-> FALSE, s |-> s]

\* fields that read_csv reads as NaN (pandas' default na_values, among others)
NaValues == {<<>>, <<"N","A">>, <<"N","/","A">>, <<"N","a","N">>, <<"n","a","n">>, <<"N","U","L","L">>, <<"n","u","l","l">>, <<"#","N","/","A">>}

\* pd.read_csv(csv_path, index_col='id'): the rows by id
read_csv(m) ==
    [id \in {m[n].id : n \in 1..Len(m)} |->
        LET row == m[CHOOSE n \in 1..Len(m) : m[n].id = id]
        IN  IF row.runner \in NaValues THEN NaN ELSE Cell(row.runner)]

NoError == [type |-> "none", text |-> <<>>, files |-> {}]

Raise(type) == [type |-> type, text |-> <<>>, files |-> {}]

\* _log_file(id), with the default log_dir
_log_file(id) == <<" "," ","e","r","r","o","r","_","l","o","g","s","/">> \o str(id) \o DotLog

\* set(int(Path(s).stem) for s in glob('*.log')), when every stem is an int
log_files(fs) == {int(Stem(n)) : n \in Glob(fs)}

_verify_df_missing_tolerated(idx, fs) ==
    IF \E n \in Glob(fs) : ~IsInt(Stem(n)) THEN Raise("ValueError")
    ELSE IF log_files(fs) \ idx # {}
         THEN [type  |-> "RuntimeError",
               text  |-> <<"L","o","g"," ","f","i","l","e","s"," ","p","r","e","s","e","n","t"," ","w","h","i","c","h"," ","a","r","e"," ","n","o","t"," ","i","n"," ","C","S","V",":"," ">>,
               files |-> {_log_file(n) : n \in log_files(fs) \ idx}]
         ELSE NoError

\* the exception _verify_df raises, or NoError
_verify_df(idx, fs) ==
    IF \E n \in Glob(fs) : ~IsInt(Stem(n)) THEN Raise("ValueError")
    ELSE IF log_files(fs) \ idx # {}
         THEN [type  |-> "RuntimeError",
               text  |-> <<"L","o","g"," ","f","i","l","e","s"," ","p","r","e","s","e","n","t"," ","w","h","i","c","h"," ","a","r","e"," ","n","o","t"," ","i","n"," ","C","S","V",":"," ">>,
               files |-> {_log_file(n) : n \in log_files(fs) \ idx}]
         ELSE IF idx \ log_files(fs) # {}
              THEN [type  |-> "RuntimeError",
                    text  |-> <<"E","r","r","o","r","s"," ","i","n"," ","C","S","V"," ","w","i","t","h","o","u","t"," ","j","o","b"," ","l","o","g","s"," ","(","t","h","e"," ","f","o","l","l","o","w","i","n","g"," ","a","r","e"," ","m","i","s","s","i","n","g",")",":"," ">>,
                    files |-> {_log_file(n) : n \in idx \ log_files(fs)}]
              ELSE NoError

_kind_null_is_aws(r) ==
    IF ~r.nan /\ HasAt(r.s, <<"u","o">>, 1) THEN "UO" ELSE "AWS"

_kind(r) ==
    IF r.nan THEN "None"
    ELSE IF HasAt(r.s, <<"u","o">>, 1) THEN "UO"
    ELSE "AWS"

\* the table: the index with the runner and kind columns, and the category
\* columns in the order they were added
NoDf == [runner |-> <<>>, kind |-> <<>>, cols |-> <<>>, val |-> <<>>]

index(d) == DOMAIN d.runner

(***************************************************************************)
(* ErrorClassifier.classify: one iteration of the loop over the taxonomy.  *)
(* self.df.at[ids, col] = True sets the rows of ids, as .loc does (the     *)
(* behaviour of the pandas releases in which .at accepts a list).          *)
(***************************************************************************)
\* the column written for one rule, and the exception raised before the
\* logging line, if any
column(d, fs, expr) ==
    IF expr.kind = "callable"
    THEN [raised |-> "none", wrote |-> TRUE,
          val |-> [id \in index(d) |-> d.runner[id].nan]]
    ELSE LET g == _grep_for_ids(expr, fs)
         IN  IF g.raised
             THEN [raised |-> "ValueError", wrote |-> FALSE, val |-> <<>>]
             ELSE IF ~(g.ids \subseteq index(d))
                  THEN [raised |-> "KeyError", wrote |-> TRUE,
                        val |-> [id \in index(d) |-> FALSE]]
                  ELSE [raised |-> "none", wrote |-> TRUE,
                        val |-> [id \in index(d) |-> id \in g.ids]]

\* self.df[col] = ...: a new column goes last, an old one keeps its place
SetColumn(d, col, val) ==
    [d EXCEPT !.cols = IF col \in Chars(d.cols) THEN d.cols ELSE Append(d.cols, col),
              !.val  = [c \in (DOMAIN d.val) \cup {col} |->
                            IF c = col THEN val ELSE d.val[c]]]

\* self.df[col].value_counts().loc[True] raises KeyError when no row is True
CountRaises(val) == \A id \in DOMAIN val : ~val[id]

(***************************************************************************)
(* Inputs.                                                                 *)
(***************************************************************************)
\* rows of a CSV file
MaxRows == 2

\* GitLab projects the links point to
MaxProject == 1

Ids == {7, 42}

Runners == {<<>>, <<"u","o","-","1">>, <<"a","w","s","-","1">>}

Link(project, job_id) ==
    LinkHead \o str(project) \o LinkJobs \o str(job_id) \o LinkTrace

\* the API links of the jobs, and a job_link (the web page of a job)
Links == {Link(p, n) : p \in 1..MaxProject, n \in Ids} \cup {<<"h","t","t","p","s",":","/","/","g","i","t","l","a","b",".","s","p","a","c","k",".","i","o","/","s","p","a","c","k","/","s","p","a","c","k","/","-","/","j","o","b","s","/","7">>}

Rows == [id : Ids, runner : Runners, api_link : Links]

\* CSV files with unique ids
Manifests ==
    UNION {{m \in [1..n -> Rows] :
               \A a, b \in 1..n : a # b => m[a].id # m[b].id} : n \in 0..MaxRows}

Bodies == {<<"o","k">>, <<"e","r","r","o","r","s"," ","f","o","u","n","d"," ","i","n"," ","b","u","i","l","d"," ","l","o","g",":">>,
           <<"f","a","t","a","l",":"," ","R","e","m","o","t","e"," ","b","r","a","n","c","h",":"," ","e","r","r","o","r"," ","f","o","u","n","d"," ","i","n"," ","b","u","i","l","d"," ","l","o","g",":"," ","K","i","l","l","e","d">>}

\* what self.session.get returns: a response with a status and a body
Responses == [status_code : {200}, text : Bodies]
             \cup [status_code : {404, 503}, text : {<<"{","}">>}]

\* the log directory before the commands run
InitialFiles == {<<>>, (<<"0","7",".","l","o","g">> :> <<"o","k">>), (<<"9",".","l","o","g">> :> <<"#">>)}

Entry(col) == taxonomy_default[CHOOSE n \in 1..Len(taxonomy_default) :
                                  taxonomy_default[n].col = col]

RuleNames == {"no_runner", "build_error", "killed", "remote_not_found"}

\* classify(taxonomy): the default, and two of its rules in either order
Taxonomies ==
    {taxonomy_default}
    \cup {<<Entry(p[1]), Entry(p[2])>> :
             p \in {q \in RuleNames \X RuleNames : q[1] # q[2]}}

(***************************************************************************)
(* The two commands.                                                       *)
(***************************************************************************)
Init ==
    /\ manifest \in Manifests
    /\ files0 \in InitialFiles
    /\ files = files0
    /\ pc = "start"
    /\ i = 0
    /\ requests = <<>>
    /\ written = <<>>
    /\ df = NoDf
    /\ taxonomy = <<>>
    /\ k = 0
    /\ error = NoError

\* get_logs: the scraper is made and process_csv starts on the first row
get_logs ==
    /\ pc = "start"
    /\ pc' = "process_csv"
    /\ i' = 1
    /\ UNCHANGED <<manifest, files0, files, requests, written, df, taxonomy, k, error>>

\* process_csv: scrape(row['api_link']) for the next row
process_csv ==
    /\ pc = "process_csv"
    /\ i <= Len(manifest)
    /\ \E response \in Responses :
          LET r == scrape(files, manifest[i].api_link, response)
          IN  /\ files' = r.files
              /\ requests' = requests \o
                    [n \in 1..Len(r.requests) |->
                        [row |-> i, api_link |-> r.requests[n], response |-> response]]
              /\ written' = written \o
                    [n \in 1..Len(r.wrote) |-> [row |-> i, name |-> r.wrote[n]]]
    /\ i' = i + 1
    /\ UNCHANGED <<manifest, files0, pc, df, taxonomy, k, error>>

\* process_csv and get_logs return after the last row
get_logs_return ==
    /\ pc = "process_csv"
    /\ i > Len(manifest)
    /\ pc' = "retrieved"
    /\ UNCHANGED <<manifest, files0, files, i, requests, written, df, taxonomy, k, error>>

\* classify (the command): ErrorClassifier(csv, log_dir).  The created_at
\* column, which to_datetime parses, plays no part in what follows.
ErrorClassifier__init__ ==
    /\ pc \in {"start", "retrieved"}
    /\ LET runner == read_csv(manifest)
           e == _verify_df(DOMAIN runner, files)
       IN  IF e # NoError
           THEN /\ pc' = "raised"
                /\ error' = e
                /\ df' = df
           ELSE /\ pc' = "constructed"
                /\ error' = error
                /\ df' = [NoDf EXCEPT !.runner = runner,
                                      !.kind = [id \in DOMAIN runner |-> _kind(runner[id])]]
    /\ UNCHANGED <<manifest, files0, files, i, requests, written, taxonomy, k>>

\* classifier.classify(taxonomy) is entered
classify ==
    /\ pc = "constructed"
    /\ taxonomy' \in Taxonomies
    /\ k' = 1
    /\ pc' = "classify"
    /\ UNCHANGED <<manifest, files0, files, i, requests, written, df, error>>

\* one iteration of the for loop: the column, then the logging line
classify_iteration ==
    /\ pc = "classify"
    /\ k <= Len(taxonomy)
    /\ LET col == taxonomy[k].col
           c == column(df, files, taxonomy[k].expr)
           d == IF c.wrote THEN SetColumn(df, col, c.val) ELSE df
       IN  /\ df' = d
           /\ IF c.raised # "none"
              THEN pc' = "raised" /\ error' = Raise(c.raised) /\ k' = k
              ELSE IF CountRaises(c.val)
                   THEN pc' = "raised" /\ error' = Raise("KeyError") /\ k' = k
                   ELSE pc' = pc /\ error' = error /\ k' = k + 1
    /\ UNCHANGED <<manifest, files0, files, i, requests, written, taxonomy>>

\* the loop is over and classify returns
classify_return ==
    /\ pc = "classify"
    /\ k > Len(taxonomy)
    /\ pc' = "done"
    /\ UNCHANGED <<manifest, files0, files, i, requests, written, df, taxonomy, k, error>>

Next ==
    \/ get_logs
    \/ process_csv
    \/ get_logs_return
    \/ ErrorClassifier__init__
    \/ classify
    \/ classify_iteration
    \/ classify_return

Spec == Init /\ [][Next]_vars

(***************************************************************************)
(* Properties.                                                             *)
(***************************************************************************)
\* the ids of the manifest
idx == {manifest[n].id : n \in 1..Len(manifest)}

\* the ids of the artifact store
store_ids == {int(Stem(n)) : n \in Glob(files)}

SymDiff == (store_ids \ idx) \cup (idx \ store_ids)

\* the classify command is over: classify() returned, or an error was raised
Finished == pc \in {"done", "raised"}

\* the consistency check ran and raised nothing
CheckPassed == \/ pc \in {"constructed", "classify", "done"}
               \/ pc = "raised" /\ error.type # "RuntimeError"

\* the contents of the artifacts of job id
Artifacts(id) == {files[n] : n \in {m \in Glob(files) : int(Stem(m)) = id}}

\* the text t occurs somewhere in the text s
Contains(s, t) == \E p \in 1..(Len(s) + 1) : HasAt(s, t, p)

\* the patterns of a pattern rule
Patterns(expr) == IF expr.kind = "list" THEN Chars(expr.l) ELSE {expr.s}

\* the artifact of job id contains one of the patterns of the rule
RuleMatches(expr, id) ==
    \E text \in Artifacts(id) : \E p \in Patterns(expr) : Contains(text, p)

\* the job a request was sent for, and the marker of a failed request
JobOf(n) == int(link_regex(requests[n].api_link).job_id)

Marker(n) ==
    (IF requests[n].response.status_code = 503 THEN <<"E","R","R","O","R",":"," ","G","o","t"," ","5","0","3"," ","f","o","r"," ">>
     ELSE <<"E","R","R","O","R",":"," ","G","o","t"," ","4","0","4"," ","f","o","r"," ">>) \o requests[n].api_link

\* request n failed and no later request was sent for the same job
FailedLast(n) == /\ requests[n].response.status_code # 200
                 /\ \A m \in (n + 1)..Len(requests) : JobOf(m) # JobOf(n)

ShapeOk(api_link) == link_regex(api_link).matched

\* C1: the classify command (the constructor, then classify() with the
\* taxonomy of the class) raises nothing if and only if the ids of the manifest
\* are the ids of the store (stated here for a manifest with at least one job).
C1_Claim ==
    (/\ Finished
     /\ Len(manifest) > 0
     /\ CheckPassed => taxonomy = taxonomy_default)
        => ((pc = "done") <=> (idx = store_ids))

\* C2: the error of the consistency check lists exactly the symmetric
\* difference of the two id sets: every orphan and every missing artifact.
C2_Claim ==
    (pc = "raised" /\ error.type = "RuntimeError")
        => error.files = {_log_file(n) : n \in SymDiff}

\* C3: after classify(), the column of a rule with a list of two patterns is
\* true for a job exactly when its artifact contains one of the two patterns.
C3_Claim ==
    pc = "done" =>
        \A n \in 1..Len(taxonomy) :
            (taxonomy[n].expr.kind = "list" /\ Len(taxonomy[n].expr.l) = 2) =>
                \A id \in idx :
                    df.val[taxonomy[n].col][id] <=> RuleMatches(taxonomy[n].expr, id)

\* the first half of C4: a failed request leaves exactly the error marker in
\* the artifact of its job
C4_Marker ==
    \A n \in 1..Len(requests) :
        FailedLast(n) => /\ LogName(JobOf(n)) \in DOMAIN files
                         /\ files[LogName(JobOf(n))] = Marker(n)

\* C4: a failed request leaves exactly 'ERROR: Got <status> for <api_link>' in
\* <job_id>.log, and a classification that follows (with the taxonomy of the
\* class, on a store that passes the check) marks the job true for
\* job_log_missing.
C4_Claim ==
    /\ C4_Marker
    /\ (Finished /\ CheckPassed /\ taxonomy = taxonomy_default) =>
           \A n \in 1..Len(requests) :
               FailedLast(n) => /\ "job_log_missing" \in DOMAIN df.val
                                /\ df.val["job_log_missing"][JobOf(n)]

\* C5: during process_csv a row whose api_link has not the expected shape
\* sends no request, writes no file and leaves the store as it is, and the
\* loop goes on to the next row; at the end every row with a valid link was
\* requested, in the order of the manifest.
C5_Skip ==
    (pc = "process_csv" /\ i <= Len(manifest) /\ ~ShapeOk(manifest[i].api_link))
        => /\ files' = files
           /\ requests' = requests
           /\ written' = written
           /\ pc' = "process_csv"
           /\ i' = i + 1

C5_AllRequested ==
    pc = "retrieved" =>
        /\ {requests[n].row : n \in 1..Len(requests)}
              = {n \in 1..Len(manifest) : ShapeOk(manifest[n].api_link)}
        /\ \A a, b \in 1..Len(requests) : a < b => requests[a].row < requests[b].row

C5_Theorem == [][C5_Skip]_vars /\ []C5_AllRequested

\* a row with an invalid link was skipped and the row after it was requested
C5_Witness ==
    /\ pc = "retrieved"
    /\ Len(manifest) = 2
    /\ ~ShapeOk(manifest[1].api_link)
    /\ ShapeOk(manifest[2].api_link)
    /\ Len(requests) = 1
    /\ requests[1].row = 2
    /\ Len(written) = 1

\* C6: after get-logs on an empty store, every file <n>.log was written by
\* exactly one row of the manifest, n is the id of that row, and the file
\* holds what was obtained for the api_link of that row.
C6_Claim ==
    (pc = "retrieved" /\ DOMAIN files0 = {}) =>
        \A name \in DOMAIN files :
            LET W == {n \in 1..Len(written) : written[n].name = name}
            IN  /\ Cardinality(W) = 1
                /\ \A w \in W :
                      /\ name = str(manifest[written[w].row].id) \o DotLog
                      /\ \E n \in 1..Len(requests) :
                            /\ requests[n].row = written[w].row
                            /\ files[name] =
                                  IF requests[n].response.status_code = 200
                                  THEN requests[n].response.text ELSE Marker(n)

\* C7: no rule is evaluated and no category column is written unless the
\* consistency check has passed; when the id sets differ the command ends
\* with the error of the check and without any category column.
C7_Theorem ==
    /\ (k > 0 \/ df.cols # <<>> \/ DOMAIN df.val # {} \/ pc \in {"classify", "done"})
          => idx = store_ids
    /\ (Finished /\ idx # store_ids)
          => /\ pc = "raised"
             /\ error.type = "RuntimeError"
             /\ k = 0
             /\ df.cols = <<>>
             /\ DOMAIN df.val = {}

\* get-logs ran, the check failed, and nothing was classified
C7_Witness ==
    /\ pc = "raised"
    /\ error.type = "RuntimeError"
    /\ Len(written) > 0
    /\ idx # store_ids
    /\ df.cols = <<>>

\* C8: with a taxonomy [A, B] of two pattern rules that both match the
\* artifact of a job, columns A and B are both true for that job after classify().
C8_Claim ==
    (/\ Finished
     /\ CheckPassed
     /\ Len(taxonomy) = 2
     /\ taxonomy[1].expr.kind # "callable"
     /\ taxonomy[2].expr.kind # "callable") =>
        \A id \in idx :
            (RuleMatches(taxonomy[1].expr, id) /\ RuleMatches(taxonomy[2].expr, id))
                => /\ pc = "done"
                   /\ df.val[taxonomy[1].col][id]
                   /\ df.val[taxonomy[2].col][id]

\* the runner of job id is null: its field is empty (or another null marker)
Absent(id) ==
    \E n \in 1..Len(manifest) : manifest[n].id = id /\ manifest[n].runner \in NaValues

\* C9: in the table, a job without runner has kind "None" and no_runner true;
\* a job with a runner has kind "UO" or "AWS" and no_runner false.
C9_Theorem ==
    /\ CheckPassed =>
          \A id \in idx :
              IF Absent(id)
              THEN /\ df.kind[id] = "None"
                   /\ "no_runner" \in DOMAIN df.val => df.val["no_runner"][id]
              ELSE /\ df.kind[id] \in {"UO", "AWS"}
                   /\ "no_runner" \in DOMAIN df.val => ~df.val["no_runner"][id]
    /\ (pc = "done" /\ \E n \in 1..Len(taxonomy) : taxonomy[n].col = "no_runner")
          => "no_runner" \in DOMAIN df.val

\* a classified table with a job without runner and a job with one
C9_Witness ==
    /\ pc = "done"
    /\ "no_runner" \in DOMAIN df.val
    /\ \E a, b \in idx : /\ Absent(a) /\ df.val["no_runner"][a] /\ df.kind[a] = "None"
                         /\ ~Absent(b) /\ ~df.val["no_runner"][b] /\ df.kind[b] = "UO"

\* C10: when the check passes, classify() returns without error and has
\* written one column per category of the taxonomy, in its order, also for a
\* category that no job matches (stated here for a manifest with at least one
\* job and a taxonomy without lists of patterns).
C10_Claim ==
    (/\ Finished
     /\ CheckPassed
     /\ Len(manifest) > 0
     /\ \A n \in 1..Len(taxonomy) : taxonomy[n].expr.kind # "list") =>
        /\ pc = "done"
        /\ df.cols = [n \in 1..Len(taxonomy) |-> taxonomy[n].col]
        /\ \A n \in 1..Len(taxonomy) : DOMAIN df.val[taxonomy[n].col] = idx

====
